---- MODULE Spec2Model ----
(***************************************************************************)
(* Trade ticket lifecycle and reputation ledger of vouch_bot.py.           *)
(*                                                                         *)
(* The bot is one discord.py process: every command and button handler is  *)
(* a coroutine on one asyncio event loop, and the sqlite3 calls are        *)
(* blocking.  A handler therefore runs without interruption from its start *)
(* to its first await on Discord I/O; the actions below are those          *)
(* uninterrupted sections.  Where a handler continues after an await with  *)
(* more store writes (the trade command, the expiry loop) the continuation *)
(* is an action of its own and the handler's position is state.            *)
(***************************************************************************)
EXTENDS Integers, Sequences, FiniteSets, Bags, TLC

\* ---------------------------------------------------------------- bounds
\* the clock runs from 0 to MaxTime (in units of the expiry time)
MaxTime == 2
\* at most MaxVouchRows rows are ever inserted into vouches
MaxVouchRows == 2

\* ------------------------------------------------------------- constants
\* TRADE_EXPIRE_SECONDS = 3 * 60 * 60; the clock counts units of 3 hours
TRADE_EXPIRE_SECONDS == 1
\* SQL NULL of an INTEGER column; real ids are positive
NULL == 0

\* the ids make_trade_id draws from: two of them, so that one run of the
\* expiry loop can hold a second row behind the await of its first, and a
\* draw can collide with a stored id
TradeIds == {1, 2}
\* ids that are never generated (a mistyped trade id in /vouch)
UnknownTradeIds == {0}
Guilds == {1, 2}
\* guilds in which /trade is issued
TradeGuilds == {1}
\* human members, and the automated accounts (user.bot)
Members == {1, 2, 3}
Bots == {4}
\* members who issue /trade
Openers == {1}
\* members holding manage_guild or administrator
Staff == {3}
\* who /trade may name: oneself, another member, a bot
TradePartners == {1, 2} \cup Bots
\* ratings tried, out of app_commands.Range[int, 1, 5]
Stars == {1, 5}
\* the one text channel of a guild, as a channel id
TheChannel == 1
\* the id of a posted ticket message
TheMessage == 1

VARIABLES
    trades,      \* trades rows: trade_id -> row
    vouches,     \* vouches rows, as a bag (the id column left out)
    now,         \* int(time.time())
    view,        \* trade_id -> the buttons shown on the ticket message
    tradeCmd,    \* trade ids whose /trade command awaits trade_channel.send
    sweepRows,   \* rows of the running expire_trades_loop not yet visited
    completedWrites, \* trade_id -> number of update_trade(status="completed")
    cfg,         \* guild_config rows: guild_id -> row
    member_roles, \* guild_id -> member -> the tier roles the member holds
    recon,       \* the calls of apply_roles waiting in an await, as a bag
    answer       \* what the last /rep or /toptraders showed

ledgerVars == <<trades, vouches, now, view, tradeCmd, sweepRows,
                completedWrites>>

vars == <<trades, vouches, now, view, tradeCmd, sweepRows,
          completedWrites, cfg, member_roles, recon, answer>>

\* ------------------------------------------------------------ store rows
TradeRow(guild_id, opener_id, partner_id, created_at) ==
    [guild_id |-> guild_id, opener_id |-> opener_id, partner_id |-> partner_id,
     status |-> "pending", accepted |-> 0,
     opener_confirmed |-> 0, partner_confirmed |-> 0,
     channel_id |-> NULL, message_id |-> NULL, created_at |-> created_at]

VouchRow(guild_id, trade_id, target_id, voucher_id, stars) ==
    [guild_id |-> guild_id, trade_id |-> trade_id, target_id |-> target_id,
     voucher_id |-> voucher_id, stars |-> stars]

\* get_trade: the row, or None when the id is not in the table
HasTrade(tr, trade_id) == trade_id \in DOMAIN tr

\* the update writing created_at = 0 along with its fields
update_trade_restamping(tr, trade_id, fields) ==
    IF trade_id \in DOMAIN tr
    THEN [tr EXCEPT ![trade_id] =
            [k \in DOMAIN @ |-> IF k \in DOMAIN fields THEN fields[k]
                                ELSE IF k = "created_at" THEN 0 ELSE @[k]]]
    ELSE tr

\* UPDATE trades SET k=v, ... WHERE trade_id=?  (no row, no change)
update_trade(tr, trade_id, fields) ==
    IF trade_id \in DOMAIN tr
    THEN [tr EXCEPT ![trade_id] =
            [k \in DOMAIN @ |-> IF k \in DOMAIN fields THEN fields[k] ELSE @[k]]]
    ELSE tr

\* UPDATE trades SET channel_id=?, message_id=? WHERE trade_id=?
set_trade_message(tr, trade_id, channel_id, message_id) ==
    update_trade(tr, trade_id, [channel_id |-> channel_id, message_id |-> message_id])

\* the index with the rating as a fourth column
UniqueViolation_same_stars(vs, row) ==
    \E r \in BagToSet(vs) :
        /\ r.guild_id = row.guild_id
        /\ r.trade_id = row.trade_id
        /\ r.voucher_id = row.voucher_id
        /\ r.stars = row.stars

\* idx_one_vouch_per_trade_per_voucher: would the insert violate the index
UniqueViolation(vs, row) ==
    \E r \in BagToSet(vs) :
        /\ r.guild_id = row.guild_id
        /\ r.trade_id = row.trade_id
        /\ r.voucher_id = row.voucher_id

\* the table without its unique index: the insert never raises
add_vouch_never_raises(vs, row) == FALSE

\* the insert as an upsert that keeps one row per guild and target
add_vouch_one_per_target(vs, row) ==
    SetToBag({r \in BagToSet(vs) :
                 r.guild_id # row.guild_id \/ r.target_id # row.target_id}
             \cup {row})

\* INSERT INTO vouches ...; raises sqlite3.IntegrityError on the index
add_vouch_raises(vs, row) == UniqueViolation(vs, row)
add_vouch(vs, row) == vs (+) SetToBag({row})

\* the query without its test of the status
find_expirable_trades_any_status(tr, now_ts) ==
    {t \in DOMAIN tr :
        /\ tr[t].created_at <= now_ts - TRADE_EXPIRE_SECONDS
        /\ tr[t].channel_id # NULL
        /\ tr[t].message_id # NULL}

\* the query selecting only rows older than the expiry time
find_expirable_trades_strictly_older(tr, now_ts) ==
    {t \in DOMAIN tr :
        /\ tr[t].status \in {"pending", "active"}
        /\ tr[t].created_at < now_ts - TRADE_EXPIRE_SECONDS
        /\ tr[t].channel_id # NULL
        /\ tr[t].message_id # NULL}

\* the query without its tests of channel_id and message_id
find_expirable_trades_no_message(tr, now_ts) ==
    {t \in DOMAIN tr :
        /\ tr[t].status \in {"pending", "active"}
        /\ tr[t].created_at <= now_ts - TRADE_EXPIRE_SECONDS}

\* the query without its test of the age
find_expirable_trades_any_age(tr, now_ts) ==
    {t \in DOMAIN tr :
        /\ tr[t].status \in {"pending", "active"}
        /\ tr[t].channel_id # NULL
        /\ tr[t].message_id # NULL}

\* SELECT * FROM trades WHERE status IN ('pending','active')
\*   AND created_at <= now - TTL AND channel_id/message_id IS NOT NULL
find_expirable_trades(tr, now_ts) ==
    {t \in DOMAIN tr :
        /\ tr[t].status \in {"pending", "active"}
        /\ tr[t].created_at <= now_ts - TRADE_EXPIRE_SECONDS
        /\ tr[t].channel_id # NULL
        /\ tr[t].message_id # NULL}

\* the values the columns and the other state take
Statuses == {"pending", "active", "completed", "declined", "expired", "cancelled"}

TypeOK ==
    /\ DOMAIN trades \subseteq TradeIds
    /\ \A t \in DOMAIN trades :
          /\ trades[t].guild_id \in Guilds
          /\ trades[t].opener_id \in Members
          /\ trades[t].partner_id \in Members
          /\ trades[t].status \in Statuses
          /\ trades[t].accepted \in {0, 1}
          /\ trades[t].opener_confirmed \in {0, 1}
          /\ trades[t].partner_confirmed \in {0, 1}
          /\ trades[t].channel_id \in {NULL, TheChannel}
          /\ trades[t].message_id \in {NULL, TheMessage}
          /\ trades[t].created_at \in 0..MaxTime
    /\ \A r \in BagToSet(vouches) :
          /\ r.guild_id \in Guilds
          /\ r.trade_id \in TradeIds
          /\ r.target_id \in Members
          /\ r.voucher_id \in Members
          /\ r.stars \in Stars
    /\ now \in 0..MaxTime
    /\ view \in [TradeIds -> {"none", "pending", "active"}]
    /\ tradeCmd \subseteq TradeIds
    /\ sweepRows \subseteq TradeIds
    /\ completedWrites \in [TradeIds -> Nat]

\* ------------------------------------------------- guild_config and roles
\* the three roles /setup_roles is given, as role ids
RoleNew == 11
RoleVerified == 12
RoleTrusted == 13
\* members with guild_permissions.administrator
Admins == {3}
\* the thresholds tried in /set_thresholds
ThreshValues == {-1, 0, 1, 2}

\* nothing shown yet
NoAnswer == [kind |-> "none"]

\* the guild_config row get_config inserts for a guild it has no row of:
\* the column defaults
DefaultConfig ==
    [thresh_new |-> 1, thresh_verified |-> 5, thresh_trusted |-> 15,
     role_new_id |-> NULL, role_verified_id |-> NULL, role_trusted_id |-> NULL]

get_config(c, guild_id) == c[guild_id]

\* UPDATE guild_config SET key=? WHERE guild_id=?, for several keys
set_config_values(c, guild_id, fields) ==
    [c EXCEPT ![guild_id] =
        [k \in DOMAIN @ |-> IF k \in DOMAIN fields THEN fields[k] ELSE @[k]]]

\* a stored 0 read as 1, whatever the tier
or_default_floor_one(v, d) == IF v = 0 THEN 1 ELSE v

\* the stored value taken as it is
or_default_as_stored(v, d) == v

\* Python's `v or d` on an int column: None and 0 both give d
or_default(v, d) == IF v = 0 THEN d ELSE v

Tier(name, threshold, role_id) ==
    [name |-> name, threshold |-> threshold, role_id |-> role_id]

\* chosen = None
NoTier == Tier("None", 0, NULL)

\* the tiers from the highest down; int(role or 0) or None keeps NULL
get_tiers(c) ==
    << Tier("Trusted Trader", or_default(c.thresh_trusted, 15), c.role_trusted_id),
       Tier("Verified Trader", or_default(c.thresh_verified, 5), c.role_verified_id),
       Tier("New Trader", or_default(c.thresh_new, 1), c.role_new_id) >>

\* the choice by threshold alone, whether or not the tier has a role
chosen_tier_any_role(tiers, total_vouches) ==
    LET met == {i \in 1..Len(tiers) : total_vouches >= tiers[i].threshold}
    IN IF met = {} THEN NoTier
       ELSE tiers[CHOOSE i \in met : \A j \in met : i <= j]

\* apply_roles: the first tier of the list whose threshold is reached and
\* whose role is configured
chosen_tier(tiers, total_vouches) ==
    LET met == {i \in 1..Len(tiers) :
                   /\ total_vouches >= tiers[i].threshold
                   /\ tiers[i].role_id # NULL}
    IN IF met = {} THEN NoTier
       ELSE tiers[CHOOSE i \in met : \A j \in met : i <= j]

\* the configured tier roles (guild.get_role finds each: /setup_roles is
\* given roles of the guild)
roles_all(c) == {c.role_new_id, c.role_verified_id, c.role_trusted_id} \ {NULL}

\* to_remove = [r for r in roles_all if r in member.roles]
to_remove(c, roles) == roles_all(c) \cap roles

\* a call of apply_roles waiting in one of its two awaits
RoleCall(guild_id, member, removing, chosen_role, pc) ==
    [guild_id |-> guild_id, member |-> member, to_remove |-> removing,
     chosen |-> chosen_role, pc |-> pc]

\* apply_roles up to its first await: the calls waiting, with this one
\* added unless it returns without awaiting
apply_roles_start(calls, c, roles, guild_id, member, total_vouches) ==
    LET chosen == chosen_tier(get_tiers(c), total_vouches)
        removing == to_remove(c, roles)
    IN IF removing # {}
       THEN calls (+) SetToBag({RoleCall(guild_id, member, removing,
                                         chosen.role_id, "remove_roles")})
       ELSE IF chosen.role_id # NULL
       THEN calls (+) SetToBag({RoleCall(guild_id, member, {},
                                         chosen.role_id, "add_roles")})
       ELSE calls

\* trader_tier_label: a tier role the member holds names the tier (the
\* roles carry the names of their tiers); with none, or no member, the
\* count is compared with the thresholds
trader_tier_label(roles, total_vouches, c) ==
    IF c.role_trusted_id # NULL /\ c.role_trusted_id \in roles THEN "Trusted Trader"
    ELSE IF c.role_verified_id # NULL /\ c.role_verified_id \in roles THEN "Verified Trader"
    ELSE IF c.role_new_id # NULL /\ c.role_new_id \in roles THEN "New Trader"
    ELSE IF total_vouches >= or_default(c.thresh_trusted, 15) THEN "Trusted Trader"
    ELSE IF total_vouches >= or_default(c.thresh_verified, 5) THEN "Verified Trader"
    ELSE IF total_vouches >= or_default(c.thresh_new, 1) THEN "New Trader"
    ELSE "Unranked"

admin_only(u) == u \in Admins

\* the command without its test of the order
set_thresholds_result_unordered(u, new, verified, trusted) ==
    IF ~admin_only(u) THEN "AdminOnly" ELSE "ok"

\* what /set_thresholds answers
set_thresholds_result(u, new, verified, trusted) ==
    IF ~admin_only(u) THEN "AdminOnly"
    ELSE IF ~(0 <= new /\ new <= verified /\ verified <= trusted) THEN "BadOrder"
    ELSE "ok"

SetThresholds(g, u, new, verified, trusted) ==
    /\ set_thresholds_result(u, new, verified, trusted) = "ok"
    /\ cfg' = set_config_values(cfg, g, [thresh_new |-> new,
                                         thresh_verified |-> verified,
                                         thresh_trusted |-> trusted])
    /\ UNCHANGED <<ledgerVars, member_roles, recon, answer>>

\* /setup_roles, given the three roles
SetupRoles(g, u, new_role, verified_role, trusted_role) ==
    /\ admin_only(u)
    /\ cfg' = set_config_values(cfg, g, [role_new_id |-> new_role,
                                         role_verified_id |-> verified_role,
                                         role_trusted_id |-> trusted_role])
    /\ UNCHANGED <<ledgerVars, member_roles, recon, answer>>

\* member.remove_roles(*to_remove) has taken effect and apply_roles goes
\* on: to member.add_roles when a tier was chosen, else it returns
RemoveRoles(call) ==
    /\ call \in BagToSet(recon)
    /\ call.pc = "remove_roles"
    /\ member_roles' = [member_roles EXCEPT
                          ![call.guild_id][call.member] = @ \ call.to_remove]
    /\ recon' = (recon (-) SetToBag({call}))
                (+) (IF call.chosen # NULL
                     THEN SetToBag({[call EXCEPT !.pc = "add_roles"]})
                     ELSE EmptyBag)
    /\ UNCHANGED <<ledgerVars, cfg, answer>>

\* member.add_roles(role) has taken effect and apply_roles returns
AddRoles(call) ==
    /\ call \in BagToSet(recon)
    /\ call.pc = "add_roles"
    /\ member_roles' = [member_roles EXCEPT
                          ![call.guild_id][call.member] = @ \cup {call.chosen}]
    /\ recon' = recon (-) SetToBag({call})
    /\ UNCHANGED <<ledgerVars, cfg, answer>>

\* ------------------------------------------------------------------ Init
Init ==
    /\ trades = << >>
    /\ vouches = EmptyBag
    /\ now = 0
    /\ view = [t \in TradeIds |-> "none"]
    /\ tradeCmd = {}
    /\ sweepRows = {}
    /\ completedWrites = [t \in TradeIds |-> 0]
    /\ cfg = [g \in Guilds |-> DefaultConfig]
    /\ member_roles = [g \in Guilds |-> [u \in Members |-> {}]]
    /\ recon = EmptyBag
    /\ answer = NoAnswer

\* ------------------------------------------------------------- /trade
\* the insert as INSERT OR REPLACE: an id already in the table is no error
create_trade_raises_never(tr, trade_id) == FALSE

\* create_trade: INSERT on the PRIMARY KEY trade_id; an id already in the
\* table raises sqlite3.IntegrityError and nothing is inserted
create_trade_raises(tr, trade_id) == trade_id \in DOMAIN tr

create_trade(tr, trade_id, guild_id, opener_id, partner_id, now_ts) ==
    [t \in (DOMAIN tr) \cup {trade_id} |->
        IF t = trade_id THEN TradeRow(guild_id, opener_id, partner_id, now_ts)
        ELSE tr[t]]

\* the trade command without its test of a trade with oneself
trade_result_self_allowed(tr, opener, user, trade_id, channelOk) ==
    IF user \in Bots THEN "NoBots"
    ELSE IF ~channelOk THEN "NoTradeChannel"
    ELSE IF create_trade_raises(tr, trade_id) THEN "IntegrityError"
    ELSE "ok"

\* what the trade command answers; trade_id is what make_trade_id drew.
\* The channel configuration is outside the ledger: channelOk says that the
\* guild's trade_channel_id is set and guild.get_channel gives a TextChannel
trade_result(tr, opener, user, trade_id, channelOk) ==
    IF user \in Bots THEN "NoBots"
    ELSE IF user = opener THEN "NoSelfTrade"
    ELSE IF ~channelOk THEN "NoTradeChannel"
    ELSE IF create_trade_raises(tr, trade_id) THEN "IntegrityError"
    ELSE "ok"

\* the trade command up to its first await; every other answer returns
\* (or raises) before anything is written
Trade(g, opener, user, trade_id, channelOk) ==
    /\ trade_result(trades, opener, user, trade_id, channelOk) = "ok"
    /\ trades' = create_trade(trades, trade_id, g, opener, user, now)
    /\ tradeCmd' = tradeCmd \cup {trade_id}
    /\ UNCHANGED <<vouches, now, view, sweepRows, completedWrites>>
    /\ UNCHANGED <<cfg, member_roles, recon, answer>>

\* the rest of the trade command: trade_channel.send, then
\* set_trade_message; when the send raises the ticket keeps no message
TradePost(trade_id, sendOk) ==
    /\ trade_id \in tradeCmd
    /\ tradeCmd' = tradeCmd \ {trade_id}
    /\ IF sendOk
       THEN /\ view' = [view EXCEPT ![trade_id] = "pending"]
            /\ trades' = set_trade_message(trades, trade_id, TheChannel, TheMessage)
       ELSE UNCHANGED <<view, trades>>
    /\ UNCHANGED <<vouches, now, sweepRows, completedWrites>>
    /\ UNCHANGED <<cfg, member_roles, recon, answer>>

\* ------------------------------------------------- PendingTradeView
\* trade["status"] != "pending" -> "This trade is no longer pending."
IsPending(row) == row.status = "pending"

\* interaction.user.id != int(trade["partner_id"]) -> "Only the tagged partner"
IsPartner(row, u) == u = row.partner_id

\* interaction.user.id != int(trade["opener_id"]) -> "Only the opener"
IsOpener(row, u) == u = row.opener_id

\* trade["status"] != "active" -> "Trade is not active."
IsActive(row) == row.status = "active"

\* interaction.response.edit_message(embed, view=v): the buttons shown on
\* the ticket message become v, unless the edit raises (editOk = FALSE)
edit_message(vw, trade_id, v, editOk) ==
    IF editOk THEN [vw EXCEPT ![trade_id] = v] ELSE vw

\* accept without the test of the status
accept_result_any_status(tr, trade_id, u) ==
    IF ~HasTrade(tr, trade_id) THEN "NotFound"
    ELSE IF ~IsPartner(tr[trade_id], u) THEN "NotPartner"
    ELSE "ok"

\* accept without the test of who pressed the button
accept_result_anyone(tr, trade_id, u) ==
    IF ~HasTrade(tr, trade_id) THEN "NotFound"
    ELSE IF ~IsPending(tr[trade_id]) THEN "NotPending"
    ELSE "ok"

\* what the Accept button answers to member u
accept_result(tr, trade_id, u) ==
    IF ~HasTrade(tr, trade_id) THEN "NotFound"
    ELSE IF ~IsPending(tr[trade_id]) THEN "NotPending"
    ELSE IF ~IsPartner(tr[trade_id], u) THEN "NotPartner"
    ELSE "ok"

\* decline open to both participants instead of the partner alone
decline_result_participants(tr, trade_id, u) ==
    IF ~HasTrade(tr, trade_id) THEN "NotFound"
    ELSE IF ~IsPending(tr[trade_id]) THEN "NotPending"
    ELSE IF u \notin {tr[trade_id].opener_id, tr[trade_id].partner_id}
         THEN "NotPartner"
    ELSE "ok"

\* what the Decline button answers to member u
decline_result(tr, trade_id, u) ==
    IF ~HasTrade(tr, trade_id) THEN "NotFound"
    ELSE IF ~IsPending(tr[trade_id]) THEN "NotPending"
    ELSE IF ~IsPartner(tr[trade_id], u) THEN "NotPartner"
    ELSE "ok"

\* button "Accept Trade" on the message of ticket trade_id, pressed by u;
\* every other answer returns before anything is written
Accept(trade_id, u, editOk) ==
    /\ view[trade_id] = "pending"
    /\ accept_result(trades, trade_id, u) = "ok"
    /\ trades' = update_trade(trades, trade_id, [status |-> "active", accepted |-> 1])
    /\ view' = edit_message(view, trade_id, "active", editOk)
    /\ UNCHANGED <<vouches, now, tradeCmd, sweepRows, completedWrites>>
    /\ UNCHANGED <<cfg, member_roles, recon, answer>>

\* button "Decline"
Decline(trade_id, u, editOk) ==
    /\ view[trade_id] = "pending"
    /\ decline_result(trades, trade_id, u) = "ok"
    /\ trades' = update_trade(trades, trade_id, [status |-> "declined"])
    /\ view' = edit_message(view, trade_id, "none", editOk)
    /\ UNCHANGED <<vouches, now, tradeCmd, sweepRows, completedWrites>>
    /\ UNCHANGED <<cfg, member_roles, recon, answer>>

\* -------------------------------------------------- ActiveTradeView
\* the test satisfied by one confirmation
BothConfirmed_either(row) == row.opener_confirmed = 1 \/ row.partner_confirmed = 1

\* _refresh_or_finalize: both confirmation columns of the re-read row are 1
BothConfirmed(row) == row.opener_confirmed = 1 /\ row.partner_confirmed = 1

\* _refresh_or_finalize deciding on the row the handler read before its
\* flag write instead of reading the row again
Finalizes_stale(tr, trade_id) ==
    HasTrade(trades, trade_id) /\ BothConfirmed(trades[trade_id])

\* does _refresh_or_finalize, run on the store tr, write status=completed
Finalizes(tr, trade_id) == HasTrade(tr, trade_id) /\ BothConfirmed(tr[trade_id])

\* the store after _refresh_or_finalize has run on the store tr
refresh_or_finalize(tr, trade_id) ==
    IF Finalizes(tr, trade_id)
    THEN update_trade(tr, trade_id, [status |-> "completed"])
    ELSE tr

\* the opener's confirm without the test of the status
confirm_opener_result_any_status(tr, trade_id, u) ==
    IF ~HasTrade(tr, trade_id) THEN "NotFound"
    ELSE IF ~IsOpener(tr[trade_id], u) THEN "NotOpener"
    ELSE "ok"

\* the opener's confirm refusing a side that has confirmed already
confirm_opener_result_once(tr, trade_id, u) ==
    IF ~HasTrade(tr, trade_id) THEN "NotFound"
    ELSE IF ~IsActive(tr[trade_id]) THEN "NotActive"
    ELSE IF ~IsOpener(tr[trade_id], u) THEN "NotOpener"
    ELSE IF tr[trade_id].opener_confirmed = 1 THEN "AlreadyConfirmed"
    ELSE "ok"

\* what the opener's confirm button answers to member u
confirm_opener_result(tr, trade_id, u) ==
    IF ~HasTrade(tr, trade_id) THEN "NotFound"
    ELSE IF ~IsActive(tr[trade_id]) THEN "NotActive"
    ELSE IF ~IsOpener(tr[trade_id], u) THEN "NotOpener"
    ELSE "ok"

\* the partner's confirm without the test of who pressed the button
confirm_partner_result_anyone(tr, trade_id, u) ==
    IF ~HasTrade(tr, trade_id) THEN "NotFound"
    ELSE IF ~IsActive(tr[trade_id]) THEN "NotActive"
    ELSE "ok"

\* what the partner's confirm button answers to member u
confirm_partner_result(tr, trade_id, u) ==
    IF ~HasTrade(tr, trade_id) THEN "NotFound"
    ELSE IF ~IsActive(tr[trade_id]) THEN "NotActive"
    ELSE IF ~IsPartner(tr[trade_id], u) THEN "NotPartner"
    ELSE "ok"

\* the part shared by the two confirm buttons after their guards: the flag
\* write, then _refresh_or_finalize (re-read, maybe complete, edit message)
ConfirmWrite(trade_id, fields, editOk) ==
    LET tr1 == update_trade(trades, trade_id, fields) IN
    /\ trades' = refresh_or_finalize(tr1, trade_id)
    /\ IF Finalizes(tr1, trade_id)
       THEN /\ completedWrites' = [completedWrites EXCEPT ![trade_id] = @ + 1]
            /\ view' = edit_message(view, trade_id, "none", editOk)
       ELSE /\ UNCHANGED completedWrites
            /\ view' = edit_message(view, trade_id, "active", editOk)

\* button "Confirm Complete (Opener)"
ConfirmOpener(trade_id, u, editOk) ==
    /\ view[trade_id] = "active"
    /\ confirm_opener_result(trades, trade_id, u) = "ok"
    /\ ConfirmWrite(trade_id, [opener_confirmed |-> 1], editOk)
    /\ UNCHANGED <<vouches, now, tradeCmd, sweepRows>>
    /\ UNCHANGED <<cfg, member_roles, recon, answer>>

\* button "Confirm Complete (Partner)"
ConfirmPartner(trade_id, u, editOk) ==
    /\ view[trade_id] = "active"
    /\ confirm_partner_result(trades, trade_id, u) = "ok"
    /\ ConfirmWrite(trade_id, [partner_confirmed |-> 1], editOk)
    /\ UNCHANGED <<vouches, now, tradeCmd, sweepRows>>
    /\ UNCHANGED <<cfg, member_roles, recon, answer>>

\* the button without its permission test
HasStaffPermission_everyone(u) == TRUE

\* guild_permissions.manage_guild or guild_permissions.administrator
HasStaffPermission(u) == u \in Staff

\* what the Force Close button answers to member u; the row's status is
\* not looked at
force_close_result(tr, trade_id, u) ==
    IF ~HasStaffPermission(u) THEN "StaffOnly"
    ELSE IF ~HasTrade(tr, trade_id) THEN "NotFound"
    ELSE "ok"

\* button "Force Close (Staff)"
ForceClose(trade_id, u, editOk) ==
    /\ view[trade_id] = "active"
    /\ force_close_result(trades, trade_id, u) = "ok"
    /\ trades' = update_trade(trades, trade_id, [status |-> "cancelled"])
    /\ view' = edit_message(view, trade_id, "none", editOk)
    /\ UNCHANGED <<vouches, now, tradeCmd, sweepRows, completedWrites>>
    /\ UNCHANGED <<cfg, member_roles, recon, answer>>

\* ------------------------------------------------ expire_trades_loop
\* the loop without its test of the row it read again
StillOpen_unchecked(row) == TRUE

\* latest["status"] not in ("pending", "active") -> continue
StillOpen(row) == row.status \in {"pending", "active"}

\* one run of the loop starts (tasks.loop starts no second run while one
\* is going): rows = find_expirable_trades(now_ts), and the first row the
\* cursor gives (SQL fixes no order) is handled before anything is awaited:
\* it is open, as the query just said, so it is expired and its message
\* edited.  The other rows wait behind that await.  (A pass that finds no
\* guild or no text channel for its row goes on to the next row without
\* awaiting; letting other handlers run there adds no state of the store,
\* since they act on other rows or are seen by the next pass's re-read.)
SweepStart(first, editOk) ==
    /\ sweepRows = {}
    /\ first \in find_expirable_trades(trades, now)
    /\ trades' = update_trade(trades, first, [status |-> "expired"])
    /\ view' = edit_message(view, first, "none", editOk)
    /\ sweepRows' = find_expirable_trades(trades, now) \ {first}
    /\ UNCHANGED <<vouches, now, tradeCmd, completedWrites>>
    /\ UNCHANGED <<cfg, member_roles, recon, answer>>

\* a later pass of the for loop, after the await of the pass before it:
\* re-read the row, expire it if it is still open, then try to edit its
\* message; a failing edit is logged only
SweepStep(trade_id, editOk) ==
    /\ trade_id \in sweepRows
    /\ sweepRows' = sweepRows \ {trade_id}
    /\ IF HasTrade(trades, trade_id) /\ StillOpen(trades[trade_id])
       THEN /\ trades' = update_trade(trades, trade_id, [status |-> "expired"])
            /\ view' = edit_message(view, trade_id, "none", editOk)
       ELSE UNCHANGED <<trades, view>>
    /\ UNCHANGED <<vouches, now, tradeCmd, completedWrites>>
    /\ UNCHANGED <<cfg, member_roles, recon, answer>>

\* time passes
Tick ==
    /\ now < MaxTime
    /\ now' = now + 1
    /\ UNCHANGED <<trades, vouches, view, tradeCmd, sweepRows,
                   completedWrites>>
    /\ UNCHANGED <<cfg, member_roles, recon, answer>>

\* -------------------------------------------------------------- /vouch
\* SELECT COUNT(*) FROM vouches WHERE guild_id=? AND target_id=?
\*   AND trade_id IS NOT NULL
RECURSIVE SumCopies(_, _)
SumCopies(vs, rows) ==
    IF rows = {} THEN 0
    ELSE LET r == CHOOSE x \in rows : TRUE
         IN CopiesIn(r, vs) + SumCopies(vs, rows \ {r})

\* the count without its test of the guild
vouch_count_any_guild(vs, guild_id, target_id) ==
    SumCopies(vs, {r \in BagToSet(vs) : r.target_id = target_id})

\* the count reading the author's column in place of the target's
vouch_count_by_voucher(vs, guild_id, target_id) ==
    SumCopies(vs, {r \in BagToSet(vs) :
                      r.guild_id = guild_id /\ r.voucher_id = target_id})

vouch_count(vs, guild_id, target_id) ==
    SumCopies(vs, {r \in BagToSet(vs) :
                      r.guild_id = guild_id /\ r.target_id = target_id})

\* SELECT AVG(stars) FROM vouches WHERE guild_id=? AND target_id=?
\*   AND trade_id IS NOT NULL; float(a or 0.0).  The average is kept as the
\* fraction num/den; over no rows it is 0
RECURSIVE SumStars(_, _)
SumStars(vs, rows) ==
    IF rows = {} THEN 0
    ELSE LET r == CHOOSE x \in rows : TRUE
         IN CopiesIn(r, vs) * r.stars + SumStars(vs, rows \ {r})

avg_stars(vs, guild_id, target_id) ==
    LET rows == {r \in BagToSet(vs) :
                    r.guild_id = guild_id /\ r.target_id = target_id}
    IN IF rows = {} THEN [num |-> 0, den |-> 1]
       ELSE [num |-> SumStars(vs, rows), den |-> SumCopies(vs, rows)]

\* the status test letting an active ticket through as well
IsCompleted_or_active(row) == row.status \in {"completed", "active"}

\* trade_row["status"] != "completed" -> "That trade is not completed yet."
IsCompleted(row) == row.status = "completed"

\* voucher_id not in (opener_id, partner_id)
IsParticipant(row, u) == u \in {row.opener_id, row.partner_id}

\* the pair test looking at the author alone
RatesTheOther_author_only(row, voucher_id, target_id) ==
    voucher_id \in {row.opener_id, row.partner_id}

\* {voucher_id, target_id} != {opener_id, partner_id}
RatesTheOther(row, voucher_id, target_id) ==
    {voucher_id, target_id} = {row.opener_id, row.partner_id}

\* the vouch command without its test of the ticket's guild
vouch_result_any_guild(tr, vs, g, u, user, trade_id, stars, channelOk) ==
    IF user \in Bots THEN "NoBots"
    ELSE IF user = u THEN "NoSelfVouch"
    ELSE IF ~channelOk THEN "NoVouchChannel"
    ELSE IF ~HasTrade(tr, trade_id) THEN "NotFound"
    ELSE IF ~IsCompleted(tr[trade_id]) THEN "NotCompleted"
    ELSE IF ~IsParticipant(tr[trade_id], u) THEN "NotParticipant"
    ELSE IF ~RatesTheOther(tr[trade_id], u, user) THEN "NotTheOther"
    ELSE IF add_vouch_raises(vs, VouchRow(g, trade_id, user, u, stars))
         THEN "AlreadyVouched"
    ELSE "ok"

\* the vouch command testing author = target only after the ticket tests
vouch_result_self_last(tr, vs, g, u, user, trade_id, stars, channelOk) ==
    IF user \in Bots THEN "NoBots"
    ELSE IF ~channelOk THEN "NoVouchChannel"
    ELSE IF ~HasTrade(tr, trade_id) THEN "NotFound"
    ELSE IF tr[trade_id].guild_id # g THEN "WrongServer"
    ELSE IF ~IsCompleted(tr[trade_id]) THEN "NotCompleted"
    ELSE IF user = u THEN "NoSelfVouch"
    ELSE IF ~IsParticipant(tr[trade_id], u) THEN "NotParticipant"
    ELSE IF ~RatesTheOther(tr[trade_id], u, user) THEN "NotTheOther"
    ELSE IF add_vouch_raises(vs, VouchRow(g, trade_id, user, u, stars))
         THEN "AlreadyVouched"
    ELSE "ok"

\* what the vouch command, issued in guild g by member u for `user` and
\* naming trade_id, answers; channelOk: the guild's vouch_channel_id is set
\* and guild.get_channel gives a TextChannel
vouch_result(tr, vs, g, u, user, trade_id, stars, channelOk) ==
    IF user \in Bots THEN "NoBots"
    ELSE IF user = u THEN "NoSelfVouch"
    ELSE IF ~channelOk THEN "NoVouchChannel"
    ELSE IF ~HasTrade(tr, trade_id) THEN "NotFound"
    ELSE IF tr[trade_id].guild_id # g THEN "WrongServer"
    ELSE IF ~IsCompleted(tr[trade_id]) THEN "NotCompleted"
    ELSE IF ~IsParticipant(tr[trade_id], u) THEN "NotParticipant"
    ELSE IF ~RatesTheOther(tr[trade_id], u, user) THEN "NotTheOther"
    ELSE IF add_vouch_raises(vs, VouchRow(g, trade_id, user, u, stars))
         THEN "AlreadyVouched"
    ELSE "ok"

\* the vouch command up to its insert; every other answer returns before
\* anything is written
Vouch(g, u, user, trade_id, stars, channelOk) ==
    /\ vouch_result(trades, vouches, g, u, user, trade_id, stars, channelOk) = "ok"
    /\ BagCardinality(vouches) < MaxVouchRows
    /\ vouches' = add_vouch(vouches, VouchRow(g, trade_id, user, u, stars))
    /\ UNCHANGED <<trades, now, view, tradeCmd, sweepRows, completedWrites>>
    /\ recon' = apply_roles_start(recon, get_config(cfg, g), member_roles[g][user],
                                   g, user, vouch_count(vouches', g, user))
    /\ UNCHANGED <<cfg, member_roles, answer>>

\* ------------------------------------------------- /rep and /toptraders
\* top_traders(gid, limit=10)
LeaderboardLimit == 10

\* one row of SELECT target_id, COUNT(*), AVG(stars) ... GROUP BY target_id
TopRow(vs, guild_id, target_id) ==
    [target_id |-> target_id,
     vouches |-> vouch_count(vs, guild_id, target_id),
     avg_stars |-> avg_stars(vs, guild_id, target_id)]

\* ORDER BY vouches DESC, avg_stars DESC puts row a before row b
SortsBefore(a, b) ==
    \/ a.vouches > b.vouches
    \/ /\ a.vouches = b.vouches
       /\ a.avg_stars.num * b.avg_stars.den > b.avg_stars.num * a.avg_stars.den

\* the results the query can give: the ORDER BY names no further key, so
\* SQL leaves the order of rows equal in both keys to the query plan; every
\* order of them is a possible result.  LIMIT cuts the list.
top_traders(vs, guild_id, limit) ==
    LET targets == {r.target_id : r \in {x \in BagToSet(vs) : x.guild_id = guild_id}}
        n == Cardinality(targets)
        m == IF n < limit THEN n ELSE limit
        orders == {s \in [1..n -> targets] :
                      /\ \A i, j \in 1..n : i # j => s[i] # s[j]
                      /\ \A i, j \in 1..n :
                            i < j => ~SortsBefore(TopRow(vs, guild_id, s[j]),
                                                  TopRow(vs, guild_id, s[i]))}
    IN {[i \in 1..m |-> TopRow(vs, guild_id, s[i])] : s \in orders}

\* /rep for a member of the guild
Rep(g, user) ==
    /\ answer' = [kind |-> "rep", guild_id |-> g, user |-> user,
                  total |-> vouch_count(vouches, g, user),
                  avg |-> avg_stars(vouches, g, user),
                  tier |-> trader_tier_label(member_roles[g][user],
                                             vouch_count(vouches, g, user),
                                             get_config(cfg, g))]
    /\ UNCHANGED <<ledgerVars, cfg, member_roles, recon>>

\* /toptraders: one of the results the query can give
TopTraders(g) ==
    /\ \E top \in top_traders(vouches, g, LeaderboardLimit) :
          answer' = [kind |-> "toptraders", guild_id |-> g, top |-> top]
    /\ UNCHANGED <<ledgerVars, cfg, member_roles, recon>>

\* the tier of a count: what trader_tier_label shows for a member without
\* tier roles, and the tier apply_roles chooses
Classify(g, total_vouches) ==
    /\ answer' = [kind |-> "tier", guild_id |-> g, total |-> total_vouches,
                  label |-> trader_tier_label({}, total_vouches, get_config(cfg, g)),
                  chosen |-> chosen_tier(get_tiers(get_config(cfg, g)),
                                         total_vouches).name]
    /\ UNCHANGED <<ledgerVars, cfg, member_roles, recon>>

\* --------------------------------------- the reputation specifications
\* a ticket both participants have confirmed, its message without buttons
CompletedTrade(guild_id, opener_id, partner_id, created_at) ==
    [TradeRow(guild_id, opener_id, partner_id, created_at) EXCEPT
        !.status = "completed", !.accepted = 1,
        !.opener_confirmed = 1, !.partner_confirmed = 1,
        !.channel_id = TheChannel, !.message_id = TheMessage]

\* the ledger once every ticket id is a completed trade of members 1 and 2,
\* ticket t in guild gs[t]
CompletedLedger(gs) ==
    /\ trades = [t \in TradeIds |-> CompletedTrade(gs[t], 1, 2, 0)]
    /\ now = 0
    /\ view = [t \in TradeIds |-> "none"]
    /\ tradeCmd = {}
    /\ sweepRows = {}
    /\ completedWrites = [t \in TradeIds |-> 1]

\* roles and thresholds under two completed tickets of one guild: the
\* vouches for them, the calls of apply_roles they start, and the two
\* admin commands
TierInit ==
    /\ CompletedLedger([t \in TradeIds |-> 1])
    /\ vouches = EmptyBag
    /\ cfg = [g \in Guilds |-> DefaultConfig]
    /\ member_roles = [g \in Guilds |-> [u \in Members |-> {}]]
    /\ recon = EmptyBag
    /\ answer = NoAnswer

TierNext ==
    \/ \E g \in Guilds, u \in Members, p \in Members,
          t \in TradeIds, s \in Stars, ok \in BOOLEAN :
            Vouch(g, u, p, t, s, ok)
    \/ \E call \in BagToSet(recon) : RemoveRoles(call)
    \/ \E call \in BagToSet(recon) : AddRoles(call)
    \/ \E g \in TradeGuilds, u \in Members :
          \E n \in ThreshValues, v \in ThreshValues, t \in ThreshValues :
             SetThresholds(g, u, n, v, t)
    \/ \E g \in TradeGuilds, u \in Members :
          SetupRoles(g, u, RoleNew, RoleVerified, RoleTrusted)

TierSpec == TierInit /\ [][TierNext]_vars

\* the classification as a function: the counts and stored thresholds tried
MaxCount == 16
ClassifyThresholds == {0, 1, 5, 15}

\* the guild_config rows /set_thresholds and /setup_roles can leave
ClassifyConfigs ==
    {[thresh_new |-> n, thresh_verified |-> v, thresh_trusted |-> t,
      role_new_id |-> r[1], role_verified_id |-> r[2], role_trusted_id |-> r[3]] :
        n \in ClassifyThresholds, v \in ClassifyThresholds,
        t \in ClassifyThresholds,
        r \in {<<NULL, NULL, NULL>>, <<RoleNew, RoleVerified, RoleTrusted>>}}

ClassifyInit ==
    /\ trades = << >>
    /\ vouches = EmptyBag
    /\ now = 0
    /\ view = [t \in TradeIds |-> "none"]
    /\ tradeCmd = {}
    /\ sweepRows = {}
    /\ completedWrites = [t \in TradeIds |-> 0]
    /\ \E c \in ClassifyConfigs :
          /\ set_thresholds_result(3, c.thresh_new, c.thresh_verified,
                                   c.thresh_trusted) = "ok"
          /\ cfg = [g \in Guilds |-> IF g \in TradeGuilds THEN c ELSE DefaultConfig]
    /\ member_roles = [g \in Guilds |-> [u \in Members |-> {}]]
    /\ recon = EmptyBag
    /\ answer = NoAnswer

ClassifyNext ==
    \E g \in TradeGuilds, n \in 0..MaxCount : Classify(g, n)

ClassifySpec == ClassifyInit /\ [][ClassifyNext]_vars

\* the queries as functions of the vouches table: every table two
\* completed tickets can leave, the second ticket in either guild
QueryRows(tr) ==
    {r \in {VouchRow(tr[t].guild_id, t, target, voucher, s) :
               t \in DOMAIN tr, target \in Members, voucher \in Members,
               s \in Stars} :
        /\ IsParticipant(tr[r.trade_id], r.voucher_id)
        /\ RatesTheOther(tr[r.trade_id], r.voucher_id, r.target_id)}

QueryInit ==
    /\ \E g2 \in Guilds : CompletedLedger([t \in TradeIds |-> IF t = 1 THEN 1 ELSE g2])
    /\ \E rows \in SUBSET QueryRows(trades) :
          /\ \A r \in rows : ~UniqueViolation(SetToBag(rows \ {r}), r)
          /\ vouches = SetToBag(rows)
    /\ cfg = [g \in Guilds |-> DefaultConfig]
    /\ member_roles = [g \in Guilds |-> [u \in Members |-> {}]]
    /\ recon = EmptyBag
    /\ answer = NoAnswer

QueryNext ==
    \/ \E g \in Guilds, u \in Members : Rep(g, u)
    \/ \E g \in Guilds : TopTraders(g)

QuerySpec == QueryInit /\ [][QueryNext]_vars

\* ------------------------------------------------------------------ Next
Next ==
    \/ \E g \in TradeGuilds, o \in Openers, p \in TradePartners,
          t \in TradeIds, ok \in BOOLEAN : Trade(g, o, p, t, ok)
    \/ \E t \in TradeIds, ok \in BOOLEAN : TradePost(t, ok)
    \/ \E t \in TradeIds, u \in Members, ok \in BOOLEAN : Accept(t, u, ok)
    \/ \E t \in TradeIds, u \in Members, ok \in BOOLEAN : Decline(t, u, ok)
    \/ \E t \in TradeIds, u \in Members, ok \in BOOLEAN : ConfirmOpener(t, u, ok)
    \/ \E t \in TradeIds, u \in Members, ok \in BOOLEAN : ConfirmPartner(t, u, ok)
    \/ \E t \in TradeIds, u \in Members, ok \in BOOLEAN : ForceClose(t, u, ok)
    \/ \E t \in TradeIds, ok \in BOOLEAN : SweepStart(t, ok)
    \/ \E t \in TradeIds, ok \in BOOLEAN : SweepStep(t, ok)
    \/ Tick
    \/ \E g \in Guilds, u \in Members, p \in Members \cup Bots,
          t \in TradeIds \cup UnknownTradeIds, s \in Stars, ok \in BOOLEAN :
            Vouch(g, u, p, t, s, ok)

Spec == Init /\ [][Next]_vars

\* a pass of the expiry loop.  tasks.loop(minutes=1) starts a run of the
\* loop every minute while none is going, and a run goes on to its next
\* row when the awaited message edit returns or raises: a pass that can be
\* taken is taken in the end
Sweep ==
    \E t \in TradeIds, ok \in BOOLEAN : SweepStart(t, ok) \/ SweepStep(t, ok)

FairSpec == Spec /\ WF_vars(Sweep)

\* ================================================================ claims
Terminal == {"completed", "declined", "expired", "cancelled"}

\* the edges of the ticket status graph
StatusEdges ==
    {<<"pending", "active">>, <<"active", "completed">>,
     <<"pending", "declined">>, <<"pending", "expired">>,
     <<"active", "expired">>, <<"active", "cancelled">>}

\* the vouches rows that name ticket t, as a bag
RowsOf(vs, t) ==
    [r \in {x \in BagToSet(vs) : x.trade_id = t} |-> CopiesIn(r, vs)]

\* C1: every change of a ticket's status follows one edge of the graph
\* pending->active, active->completed, pending->declined, pending->expired,
\* active->expired, active->cancelled.
C1_StatusGraph ==
    [][\A t \in DOMAIN trades :
          trades'[t].status # trades[t].status
              => <<trades[t].status, trades'[t].status>> \in StatusEdges]_vars

C3_ExactlyOneCompletion ==
    \A t \in DOMAIN trades :
        /\ completedWrites[t] <= 1
        /\ (trades[t].opener_confirmed = 1 /\ trades[t].partner_confirmed = 1)
               => completedWrites[t] = 1

C3_Witness ==
    \E t \in DOMAIN trades :
        /\ trades[t].opener_confirmed = 1
        /\ trades[t].partner_confirmed = 1
        /\ completedWrites[t] = 1

C5_OneVouchPerTradePerVoucher ==
    \A r1 \in BagToSet(vouches) :
        /\ CopiesIn(r1, vouches) = 1
        /\ \A r2 \in BagToSet(vouches) :
              (/\ r1.guild_id = r2.guild_id
               /\ r1.trade_id = r2.trade_id
               /\ r1.voucher_id = r2.voucher_id) => r1 = r2

\* a row is stored and the same author's next vouch for that ticket, with
\* another rating, is stopped by the index
C5_Witness ==
    \E r \in BagToSet(vouches) : \E s \in Stars \ {r.stars} :
        vouch_result(trades, vouches, r.guild_id, r.voucher_id, r.target_id,
                     r.trade_id, s, TRUE) = "AlreadyVouched"

\* C6: while a ticket's status is not completed no step adds a vouches row
\* for it, and a vouch that gets as far as the status test is answered
\* "not completed".
C6_VouchOnlyCompleted ==
    [][\A t \in DOMAIN trades :
          trades[t].status # "completed" =>
              /\ RowsOf(vouches', t) = RowsOf(vouches, t)
              /\ \A u \in Members : \A p \in Members \ {u} : \A s \in Stars :
                    vouch_result(trades, vouches, trades[t].guild_id, u, p, t,
                                 s, TRUE) = "NotCompleted"]_vars

\* a declined ticket, no row for it, and the opener's vouch for the partner
\* answered "not completed"
C6_Witness ==
    \E t \in DOMAIN trades :
        /\ trades[t].status = "declined"
        /\ RowsOf(vouches, t) = EmptyBag
        /\ vouch_result(trades, vouches, trades[t].guild_id, trades[t].opener_id,
                        trades[t].partner_id, t, 5, TRUE) = "NotCompleted"

\* C7: every vouches row has author and target equal to the two
\* participants of its ticket, author and target distinct; on a completed
\* ticket a vouch by a member who is no participant, or for a member who
\* is not the other participant, is refused.
C7_VouchBetweenParticipants ==
    /\ \A r \in BagToSet(vouches) :
          /\ HasTrade(trades, r.trade_id)
          /\ {r.voucher_id, r.target_id} =
                 {trades[r.trade_id].opener_id, trades[r.trade_id].partner_id}
          /\ r.voucher_id # r.target_id
    /\ \A t \in DOMAIN trades :
          trades[t].status = "completed" =>
              \A u \in Members : \A p \in Members \ {u} : \A s \in Stars :
                  LET both == {trades[t].opener_id, trades[t].partner_id}
                      res == vouch_result(trades, vouches, trades[t].guild_id,
                                          u, p, t, s, TRUE)
                  IN /\ u \notin both => res = "NotParticipant"
                     /\ (u \in both /\ p \notin both) => res = "NotTheOther"

\* a row is stored, and on its completed ticket a third member's vouch and
\* a participant's vouch for a third member are both refused
C7_Witness ==
    \E r \in BagToSet(vouches) : \E x \in Members :
        /\ trades[r.trade_id].status = "completed"
        /\ x \notin {r.voucher_id, r.target_id}
        /\ vouch_result(trades, vouches, r.guild_id, x, r.target_id, r.trade_id,
                        5, TRUE) = "NotParticipant"
        /\ vouch_result(trades, vouches, r.guild_id, r.target_id, x, r.trade_id,
                        5, TRUE) = "NotTheOther"

\* C8: once an author's vouch for a ticket is stored, the same author's
\* next vouch for that ticket, with any rating, is answered "already
\* vouched".
C8_SecondVouchAlreadyRated ==
    \A r \in BagToSet(vouches) : \A s \in Stars :
        vouch_result(trades, vouches, r.guild_id, r.voucher_id, r.target_id,
                     r.trade_id, s, TRUE) = "AlreadyVouched"

\* C9: accept is a step only on a pending ticket and only by its partner,
\* and it makes the status active; on any other status the answer is "no
\* longer pending", to any other member "only the partner".
C9_AcceptPendingPartner ==
    [][\A t \in DOMAIN trades : \A u \in Members : \A ok \in BOOLEAN :
          /\ Accept(t, u, ok) =>
                /\ trades[t].status = "pending"
                /\ u = trades[t].partner_id
                /\ trades'[t].status = "active"
          /\ trades[t].status # "pending" =>
                accept_result(trades, t, u) = "NotPending"
          /\ (trades[t].status = "pending" /\ u # trades[t].partner_id) =>
                accept_result(trades, t, u) = "NotPartner"]_vars

C9_Witness ==
    \E t \in DOMAIN trades :
        /\ trades[t].status = "active"
        /\ trades[t].accepted = 1
        /\ accept_result(trades, t, trades[t].partner_id) = "NotPending"

\* C10: decline is a step only on a pending ticket and only by its
\* partner, and it makes the status declined; on any other status the
\* answer is "no longer pending", to any other member (the opener too)
\* "only the partner".
C10_DeclinePendingPartner ==
    [][\A t \in DOMAIN trades : \A u \in Members : \A ok \in BOOLEAN :
          /\ Decline(t, u, ok) =>
                /\ trades[t].status = "pending"
                /\ u = trades[t].partner_id
                /\ trades'[t].status = "declined"
          /\ trades[t].status # "pending" =>
                decline_result(trades, t, u) = "NotPending"
          /\ (trades[t].status = "pending" /\ u # trades[t].partner_id) =>
                decline_result(trades, t, u) = "NotPartner"]_vars

C10_Witness ==
    \E t \in DOMAIN trades :
        /\ trades[t].status = "declined"
        /\ decline_result(trades, t, trades[t].opener_id) = "NotPending"

\* C11: a confirmation flag of a ticket changes only in a confirm step on
\* an active ticket pressed by the participant of that side (the opener's
\* flag by opener_id, the partner's flag by partner_id); on a ticket that
\* is not active every confirm is answered "not active", and on an active
\* one a confirm by anyone but the side's participant is answered "only
\* the opener" / "only the partner", and those answers write nothing.
C11_ConfirmRightActorActive ==
    [][\A t \in DOMAIN trades :
          /\ trades'[t].opener_confirmed # trades[t].opener_confirmed =>
                \E u \in Members, ok \in BOOLEAN : ConfirmOpener(t, u, ok)
          /\ trades'[t].partner_confirmed # trades[t].partner_confirmed =>
                \E u \in Members, ok \in BOOLEAN : ConfirmPartner(t, u, ok)
          /\ \A u \in Members : \A ok \in BOOLEAN :
                /\ ConfirmOpener(t, u, ok) =>
                      /\ trades[t].status = "active"
                      /\ u = trades[t].opener_id
                      /\ trades'[t].opener_confirmed = 1
                      /\ trades'[t].partner_confirmed = trades[t].partner_confirmed
                /\ ConfirmPartner(t, u, ok) =>
                      /\ trades[t].status = "active"
                      /\ u = trades[t].partner_id
                      /\ trades'[t].partner_confirmed = 1
                      /\ trades'[t].opener_confirmed = trades[t].opener_confirmed
                /\ trades[t].status # "active" =>
                      /\ confirm_opener_result(trades, t, u) = "NotActive"
                      /\ confirm_partner_result(trades, t, u) = "NotActive"
                /\ (trades[t].status = "active" /\ u # trades[t].opener_id) =>
                      confirm_opener_result(trades, t, u) = "NotOpener"
                /\ (trades[t].status = "active" /\ u # trades[t].partner_id) =>
                      confirm_partner_result(trades, t, u) = "NotPartner"]_vars

\* an active ticket on which the opener has confirmed and the partner has
\* not: the opener pressing the partner's button and a third member
\* pressing the opener's are both refused
C11_Witness ==
    \E t \in DOMAIN trades : \E x \in Members :
        /\ trades[t].status = "active"
        /\ trades[t].opener_confirmed = 1
        /\ trades[t].partner_confirmed = 0
        /\ x \notin {trades[t].opener_id, trades[t].partner_id}
        /\ confirm_partner_result(trades, t, trades[t].opener_id) = "NotPartner"
        /\ confirm_opener_result(trades, t, x) = "NotOpener"

\* C12: on an active ticket on which one side has confirmed and the other
\* has not, the same side's confirm pressed again is accepted (it passes
\* every test of the handler) and is a step that changes nothing: status,
\* both flags, and everything else stay as the first call left them.
C12_ConfirmTwiceIdempotent ==
    \A t \in DOMAIN trades : \A ok \in BOOLEAN :
        /\ (/\ trades[t].status = "active"
            /\ trades[t].opener_confirmed = 1
            /\ trades[t].partner_confirmed = 0) =>
               ENABLED (/\ ConfirmOpener(t, trades[t].opener_id, ok)
                        /\ UNCHANGED vars)
        /\ (/\ trades[t].status = "active"
            /\ trades[t].partner_confirmed = 1
            /\ trades[t].opener_confirmed = 0) =>
               ENABLED (/\ ConfirmPartner(t, trades[t].partner_id, ok)
                        /\ UNCHANGED vars)

\* the second call's case: active, the partner has confirmed, the opener
\* has not, and the partner's confirm is still answered as a success
C12_Witness ==
    \E t \in DOMAIN trades :
        /\ trades[t].status = "active"
        /\ trades[t].partner_confirmed = 1
        /\ trades[t].opener_confirmed = 0
        /\ confirm_partner_result(trades, t, trades[t].partner_id) = "ok"

\* C13: a ticket's status becomes expired only in a step of the expiry
\* loop, from pending or active as read in that step, and at a time when
\* now - created_at >= TRADE_EXPIRE_SECONDS; the bound is inclusive: an
\* open ticket with a message that is exactly TRADE_EXPIRE_SECONDS old is
\* selected by the query, and none younger is.
C13_ExpireOnlyOpenAndDue ==
    [][\A t \in DOMAIN trades :
          /\ (trades'[t].status = "expired" /\ trades[t].status # "expired") =>
                /\ trades[t].status \in {"pending", "active"}
                /\ now - trades[t].created_at >= TRADE_EXPIRE_SECONDS
                /\ \E ok \in BOOLEAN : SweepStart(t, ok) \/ SweepStep(t, ok)
          /\ (/\ trades[t].status \in {"pending", "active"}
              /\ trades[t].message_id # NULL
              /\ now - trades[t].created_at = TRADE_EXPIRE_SECONDS) =>
                t \in find_expirable_trades(trades, now)
          /\ now - trades[t].created_at < TRADE_EXPIRE_SECONDS =>
                t \notin find_expirable_trades(trades, now)]_vars

\* a ticket expired at the very age TRADE_EXPIRE_SECONDS
C13_Witness ==
    \E t \in DOMAIN trades :
        /\ trades[t].status = "expired"
        /\ now - trades[t].created_at = TRADE_EXPIRE_SECONDS

\* C14: the expiry loop never writes over a terminal status: a pass of the
\* loop over a ticket that a button has completed, declined or cancelled
\* since the loop's query selected it writes nothing (ticket and message
\* stay as the button left them), and the pass that follows the query
\* directly never meets such a ticket.
C14_SweepKeepsTerminal ==
    [][\A t \in DOMAIN trades : \A ok \in BOOLEAN :
          /\ (SweepStep(t, ok) /\ trades[t].status \in Terminal) =>
                /\ trades' = trades
                /\ view' = view
          /\ SweepStart(t, ok) => trades[t].status \notin Terminal
          /\ trades[t].status \in {"completed", "declined", "cancelled"} =>
                trades'[t].status # "expired"]_vars

\* a run of the loop has selected two tickets and expired the first; while
\* it awaited that message edit the second was declined, and is still to
\* be visited
C14_Witness ==
    \E t \in sweepRows : \E t2 \in DOMAIN trades :
        /\ trades[t].status = "declined"
        /\ now - trades[t].created_at >= TRADE_EXPIRE_SECONDS
        /\ t2 # t
        /\ trades[t2].status = "expired"

\* C15: the trade command naming oneself or a bot as partner is refused
\* and inserts no row; every stored ticket has opener_id # partner_id and a
\* partner that is no bot, and a ticket just inserted has status pending,
\* accepted 0 and both confirmation flags 0.
C15_CreateRejectsSelfAndBots ==
    [][/\ \A t \in DOMAIN trades' :
             /\ trades'[t].opener_id # trades'[t].partner_id
             /\ trades'[t].partner_id \notin Bots
       /\ \A t \in DOMAIN trades' \ DOMAIN trades :
             /\ trades'[t].status = "pending"
             /\ trades'[t].accepted = 0
             /\ trades'[t].opener_confirmed = 0
             /\ trades'[t].partner_confirmed = 0
       /\ \A g \in TradeGuilds, o \in Openers, p \in TradePartners,
             t \in TradeIds, ok \in BOOLEAN :
             /\ p \in Bots => trade_result(trades, o, p, t, ok) = "NoBots"
             /\ p = o => trade_result(trades, o, p, t, ok) = "NoSelfTrade"
             /\ (p \in Bots \/ p = o) => ~Trade(g, o, p, t, ok)]_vars

\* a ticket is stored, and with a free id and a configured channel the
\* opener naming themself and naming a bot are both refused
C15_Witness ==
    \E t \in DOMAIN trades : \E t2 \in TradeIds \ DOMAIN trades :
        \E b \in Bots :
            /\ trade_result(trades, trades[t].opener_id, trades[t].opener_id,
                            t2, TRUE) = "NoSelfTrade"
            /\ trade_result(trades, trades[t].opener_id, b, t2, TRUE) = "NoBots"

\* C16: a trade command whose drawn id is already stored, while a free id
\* remains, does not fail on the collision: it draws again and succeeds
\* with a new pending ticket.
C16_CollisionRetried ==
    \A t \in DOMAIN trades :
        \A o \in Openers : \A p \in (TradePartners \ Bots) \ {o} :
            TradeIds \ DOMAIN trades # {} =>
                trade_result(trades, o, p, t, TRUE) = "ok"

\* C17: force close is a step only for a member holding manage_guild or
\* administrator; pressed by anyone else, either participant of the ticket
\* included, it is answered "staff only" and writes nothing; a ticket
\* becomes cancelled only through a staff member's force close.
C17_ForceCloseStaffOnly ==
    [][\A t \in DOMAIN trades : \A u \in Members : \A ok \in BOOLEAN :
          /\ ForceClose(t, u, ok) => u \in Staff
          /\ u \notin Staff => force_close_result(trades, t, u) = "StaffOnly"
          /\ (trades'[t].status = "cancelled" /\ trades[t].status # "cancelled")
                => \E s \in Staff, e \in BOOLEAN : ForceClose(t, s, e)]_vars

\* a ticket that staff has force-closed, on which the opener's and the
\* partner's press of the button are refused
C17_Witness ==
    \E t \in DOMAIN trades :
        /\ trades[t].status = "cancelled"
        /\ force_close_result(trades, t, trades[t].opener_id) = "StaffOnly"
        /\ force_close_result(trades, t, trades[t].partner_id) = "StaffOnly"

\* C18: a ticket whose status is pending, declined, expired or cancelled
\* has opener_confirmed = 0 and partner_confirmed = 0.
C18_FlagsClearOutsideActive ==
    \A t \in DOMAIN trades :
        trades[t].status \in {"pending", "declined", "expired", "cancelled"} =>
            /\ trades[t].opener_confirmed = 0
            /\ trades[t].partner_confirmed = 0

\* C19: in every state, every vouches row names a stored ticket whose
\* status is completed.
C19_VouchedTicketStaysCompleted ==
    \A r \in BagToSet(vouches) :
        /\ HasTrade(trades, r.trade_id)
        /\ trades[r.trade_id].status = "completed"

\* C20: the confirm that sets the second of the two flags of an accepted
\* ticket, whichever side it is, leaves the ticket completed; on a
\* completed ticket the opener's first vouch for the partner, with any
\* rating 1..5 (in the ticket's guild, its vouch channel configured), is
\* accepted; and a vouch step for target B raises vouch_count(B) by one
\* and, when B had no row before, makes avg_stars(B) the rating given.
C20_HappyPathThenVouch ==
    [][/\ \A t \in DOMAIN trades : \A u \in Members : \A ok \in BOOLEAN :
             ((ConfirmOpener(t, u, ok) \/ ConfirmPartner(t, u, ok))
                 /\ BothConfirmed(trades'[t])) =>
                    /\ trades[t].accepted = 1
                    /\ trades'[t].status = "completed"
       /\ \A t \in DOMAIN trades :
             (/\ trades[t].status = "completed"
              /\ ~\E r \in BagToSet(vouches) :
                    r.trade_id = t /\ r.voucher_id = trades[t].opener_id) =>
                \A s \in 1..5 :
                    vouch_result(trades, vouches, trades[t].guild_id,
                                 trades[t].opener_id, trades[t].partner_id,
                                 t, s, TRUE) = "ok"
       /\ \A g \in Guilds, u \in Members, p \in Members, t \in TradeIds,
             s \in Stars, ok \in BOOLEAN :
             Vouch(g, u, p, t, s, ok) =>
                /\ vouch_count(vouches', g, p) = vouch_count(vouches, g, p) + 1
                /\ vouch_count(vouches, g, p) = 0 =>
                      avg_stars(vouches', g, p).num
                          = s * avg_stars(vouches', g, p).den]_vars

\* the scenario's end: a completed ticket, the opener's 5-star vouch for
\* the partner stored, the partner's count 1 and average 5
C20_Witness ==
    \E t \in DOMAIN trades :
        LET g == trades[t].guild_id
            A == trades[t].opener_id
            B == trades[t].partner_id
        IN /\ trades[t].status = "completed"
           /\ BothConfirmed(trades[t])
           /\ CopiesIn(VouchRow(g, t, B, A, 5), vouches) = 1
           /\ vouch_count(vouches, g, B) = 1
           /\ avg_stars(vouches, g, B) = [num |-> 5, den |-> 1]

\* C21: a vouch naming an id that is not stored is answered "not found",
\* and a vouch issued in another guild than the ticket's is answered "not
\* for this server", also when the ticket is completed and author and
\* target are its two participants; neither inserts a row: every vouch
\* step names a stored ticket of the guild it is issued in.
C21_NotFoundWrongServer ==
    [][/\ \A g \in Guilds, u \in Members, p \in Members, s \in Stars :
             /\ \A t \in (TradeIds \cup UnknownTradeIds) \ DOMAIN trades :
                   /\ p # u => vouch_result(trades, vouches, g, u, p, t, s,
                                            TRUE) = "NotFound"
                   /\ \A ok \in BOOLEAN : ~Vouch(g, u, p, t, s, ok)
             /\ \A t \in DOMAIN trades :
                   g # trades[t].guild_id =>
                      /\ p # u => vouch_result(trades, vouches, g, u, p, t, s,
                                               TRUE) = "WrongServer"
                      /\ \A ok \in BOOLEAN : ~Vouch(g, u, p, t, s, ok)
       /\ \A r \in BagToSet(vouches') :
             /\ HasTrade(trades', r.trade_id)
             /\ r.guild_id = trades'[r.trade_id].guild_id]_vars

\* a completed ticket without rows: its opener's vouch for its partner is
\* refused in the other guild, and refused under an id that is not stored
C21_Witness ==
    \E t \in DOMAIN trades : \E g \in Guilds \ {trades[t].guild_id} :
        \E t0 \in UnknownTradeIds :
            /\ trades[t].status = "completed"
            /\ RowsOf(vouches, t) = EmptyBag
            /\ vouch_result(trades, vouches, g, trades[t].opener_id,
                            trades[t].partner_id, t, 5, TRUE) = "WrongServer"
            /\ vouch_result(trades, vouches, trades[t].guild_id,
                            trades[t].opener_id, trades[t].partner_id, t0, 5,
                            TRUE) = "NotFound"

\* C22: a vouch whose target is its author is answered "cannot vouch for
\* yourself" whatever ticket it names (an id not stored, a ticket of
\* another guild, a ticket not completed, a completed one) and whether or
\* not the vouch channel is configured, and it inserts nothing.
C22_SelfVouchFirst ==
    [][\A g \in Guilds, u \in Members, s \in Stars, ok \in BOOLEAN :
          \A t \in TradeIds \cup UnknownTradeIds :
             /\ vouch_result(trades, vouches, g, u, u, t, s, ok) = "NoSelfVouch"
             /\ ~Vouch(g, u, u, t, s, ok)
       /\ \A r \in BagToSet(vouches') : r.voucher_id # r.target_id]_vars

\* the four tickets of the claim at once: a completed ticket and one that
\* is not, the other guild, and an id that is not stored; the opener
\* naming themself is refused for each
C22_Witness ==
    \E t1 \in DOMAIN trades, t2 \in DOMAIN trades :
        \E g \in Guilds \ {trades[t1].guild_id} : \E t0 \in UnknownTradeIds :
            LET u == trades[t1].opener_id
                h == trades[t1].guild_id
            IN /\ trades[t1].status = "completed"
               /\ trades[t2].status # "completed"
               /\ vouch_result(trades, vouches, h, u, u, t1, 5, TRUE) = "NoSelfVouch"
               /\ vouch_result(trades, vouches, h, u, u, t2, 5, TRUE) = "NoSelfVouch"
               /\ vouch_result(trades, vouches, g, u, u, t1, 5, TRUE) = "NoSelfVouch"
               /\ vouch_result(trades, vouches, h, u, u, t0, 5, TRUE) = "NoSelfVouch"

\* C27: when the edit of the ticket message fails in a pass of the expiry
\* loop, the status written in that pass stays expired and the buttons
\* stay as they were, and the loop goes on with every other row it
\* selected; an expired ticket whose buttons are still shown is not
\* selected by the query, at this time or a later one, is in no running
\* loop, and no pass of the loop writes its row or its message.
C27_FailedEditStaysExpired ==
    [][\A t \in DOMAIN trades :
          /\ (SweepStart(t, FALSE) \/ (SweepStep(t, FALSE) /\ StillOpen(trades[t]))) =>
                /\ trades'[t].status = "expired"
                /\ view' = view
                /\ sweepRows' = (IF sweepRows = {}
                                 THEN find_expirable_trades(trades, now)
                                 ELSE sweepRows) \ {t}
          /\ (trades[t].status = "expired" /\ view[t] # "none") =>
                /\ \A ts \in now..MaxTime : t \notin find_expirable_trades(trades, ts)
                /\ t \notin sweepRows
                /\ t \notin sweepRows'
                /\ (\E t2 \in TradeIds, ok \in BOOLEAN :
                        SweepStart(t2, ok) \/ SweepStep(t2, ok)) =>
                      /\ trades'[t] = trades[t]
                      /\ view'[t] = view[t]]_vars

\* a pass has expired a ticket and failed to edit its message (the
\* buttons are still shown), and the same run of the loop has another
\* row to visit
C27_Witness ==
    \E t \in DOMAIN trades :
        /\ trades[t].status = "expired"
        /\ view[t] # "none"
        /\ sweepRows # {}

\* C28: no step removes a trades row, no step removes or changes a vouches
\* row (the rows of before are all among the rows of after, as a bag), and
\* no member's vouch_count in any guild gets smaller.
C28_NothingDeleted ==
    [][/\ DOMAIN trades \subseteq DOMAIN trades'
       /\ vouches \sqsubseteq vouches'
       /\ \A g \in Guilds, u \in Members :
             vouch_count(vouches', g, u) >= vouch_count(vouches, g, u)]_vars

\* a member with two rows, inserted one after the other, while both
\* tickets are still stored
C28_Witness ==
    \E g \in Guilds, u \in Members :
        /\ vouch_count(vouches, g, u) = 2
        /\ DOMAIN trades = TradeIds

\* C23: for every count of at least 1 and every stored threshold triple
\* with 0 <= new <= verified <= trusted, the tier shown for a member
\* without tier roles is the highest tier whose stored threshold is at
\* most the count, looked at from trusted down, else unranked, and with
\* the three roles configured apply_roles chooses that tier (none when
\* unranked); with the thresholds (1, 5, 15) the counts 0, 1, 4, 5, 14, 15
\* give unranked, new, new, verified, verified, trusted.
C23_HighestTierReached ==
    [][\A g \in TradeGuilds, n \in 0..MaxCount :
          Classify(g, n) =>
             LET c == cfg[g]
                 tier == IF n >= c.thresh_trusted THEN "Trusted Trader"
                         ELSE IF n >= c.thresh_verified THEN "Verified Trader"
                         ELSE IF n >= c.thresh_new THEN "New Trader"
                         ELSE "Unranked"
             IN /\ n >= 1 =>
                     /\ answer'.label = tier
                     /\ c.role_new_id # NULL =>
                           answer'.chosen = (IF tier = "Unranked" THEN "None"
                                             ELSE tier)
                /\ (c.thresh_new = 1 /\ c.thresh_verified = 5
                       /\ c.thresh_trusted = 15) =>
                     answer'.label =
                        (CASE n = 0 -> "Unranked"
                           [] n \in 1..4 -> "New Trader"
                           [] n \in 5..14 -> "Verified Trader"
                           [] OTHER -> "Trusted Trader")]_vars

\* C24: the count 0 is unranked under every stored threshold triple that
\* /set_thresholds accepts, zeros included: the label of a member without
\* tier roles is Unranked and apply_roles chooses no tier.
C24_ZeroIsUnranked ==
    [][\A g \in TradeGuilds :
          Classify(g, 0) =>
             /\ answer'.label = "Unranked"
             /\ answer'.chosen = "None"]_vars

\* the count 0 classified under the thresholds (0, 0, 0) with the roles
\* configured
C24_Witness ==
    \E g \in TradeGuilds :
        /\ answer.kind = "tier"
        /\ answer.guild_id = g
        /\ answer.total = 0
        /\ cfg[g].thresh_new = 0
        /\ cfg[g].thresh_trusted = 0
        /\ cfg[g].role_new_id # NULL
        /\ answer.label = "Unranked"

\* C25: whenever no call of apply_roles for a member is waiting in an
\* await, also after two calls for the member overlapped, the member
\* holds at most one tier role.
C25_OneTierRoleAfterReconcile ==
    \A g \in Guilds, u \in Members :
        (\A call \in BagToSet(recon) : call.guild_id # g \/ call.member # u)
           => Cardinality(member_roles[g][u]) <= 1

\* C26: a call of apply_roles for a member who holds exactly the role of
\* the tier the call chooses issues nothing (it returns without waiting
\* for a removal or a grant), and no call removes the role it has chosen
\* to grant, so that such a member is never without a tier role.
C26_NoChangeWhenRoleHeld ==
    [][/\ \A g \in Guilds, u \in Members, p \in Members, t \in TradeIds,
            s \in Stars, ok \in BOOLEAN :
             LET chosen == chosen_tier(get_tiers(cfg[g]),
                                       vouch_count(vouches', g, p))
             IN (/\ Vouch(g, u, p, t, s, ok)
                 /\ chosen.role_id # NULL
                 /\ member_roles[g][p] = {chosen.role_id})
                   => recon' = recon
       /\ \A call \in BagToSet(recon) :
             RemoveRoles(call) => call.chosen \notin call.to_remove]_vars

\* C29: for a vouches table the leaderboard query has one result: every
\* result has the targets by count descending, then average descending,
\* and no two results differ in the order of targets equal in both.
C29_LeaderboardDeterministic ==
    \A g \in Guilds :
        /\ \A top \in top_traders(vouches, g, LeaderboardLimit) :
              \A i, j \in 1..Len(top) :
                 i < j =>
                    \/ top[i].vouches > top[j].vouches
                    \/ /\ top[i].vouches = top[j].vouches
                       /\ top[i].avg_stars.num * top[j].avg_stars.den
                             >= top[j].avg_stars.num * top[i].avg_stars.den
        /\ Cardinality(top_traders(vouches, g, LeaderboardLimit)) = 1

\* the rows of a bag of vouches about one target in one guild
RowsAbout(vs, g, u) ==
    LET mine == {r \in BagToSet(vs) : r.guild_id = g /\ r.target_id = u}
    IN [r \in mine |-> vs[r]]

\* the ratings of a bag of vouches added up, rating by rating
RatingTotal(vs) ==
    LET n(s) == BagCardinality([r \in {x \in BagToSet(vs) : x.stars = s} |-> vs[r]])
    IN n(1) + 2 * n(2) + 3 * n(3) + 4 * n(4) + 5 * n(5)

\* C30: what /rep shows for a member is the number of vouches rows with
\* that guild and that target, and an average that is the sum of their
\* ratings over their number, or 0 when there is none; both are what the
\* queries give on the table cut down to those rows, so rows of other
\* guilds and other targets count for nothing.
C30_CountAndAverage ==
    [][\A g \in Guilds, u \in Members :
          Rep(g, u) =>
             LET mine == RowsAbout(vouches, g, u)
             IN /\ answer'.total = BagCardinality(mine)
                /\ answer'.total = 0 => answer'.avg = [num |-> 0, den |-> 1]
                /\ answer'.total > 0 =>
                      /\ answer'.avg.den > 0
                      /\ answer'.avg.num * answer'.total
                            = RatingTotal(mine) * answer'.avg.den
                /\ answer'.total = vouch_count(mine, g, u)
                /\ answer'.avg = avg_stars(mine, g, u)]_vars

\* /rep has shown one vouch for a member about whom the other guild holds
\* a row too, while the guild holds a row about another member
C30_Witness ==
    /\ answer.kind = "rep"
    /\ answer.total = 1
    /\ \E r \in BagToSet(vouches) :
          r.guild_id # answer.guild_id /\ r.target_id = answer.user
    /\ \E r \in BagToSet(vouches) :
          r.guild_id = answer.guild_id /\ r.target_id # answer.user

\* C31: the stored thresholds of every guild satisfy
\* 0 <= thresh_new <= thresh_verified <= thresh_trusted before and after
\* every step, and /set_thresholds with arguments that are not in this
\* order is refused, whoever issues it, and changes no stored threshold.
C31_ThresholdsOrdered ==
    [][/\ \A g \in Guilds :
             /\ 0 <= cfg[g].thresh_new
             /\ cfg[g].thresh_new <= cfg[g].thresh_verified
             /\ cfg[g].thresh_verified <= cfg[g].thresh_trusted
             /\ 0 <= cfg'[g].thresh_new
             /\ cfg'[g].thresh_new <= cfg'[g].thresh_verified
             /\ cfg'[g].thresh_verified <= cfg'[g].thresh_trusted
       /\ \A g \in Guilds, u \in Members :
             \A n \in ThreshValues, v \in ThreshValues, t \in ThreshValues :
                ~(0 <= n /\ n <= v /\ v <= t) =>
                   /\ set_thresholds_result(u, n, v, t) # "ok"
                   /\ ~SetThresholds(g, u, n, v, t)]_vars

\* /set_thresholds has stored (0, 1, 2) in place of the defaults
C31_Witness ==
    \E g \in Guilds :
        /\ cfg[g].thresh_new = 0
        /\ cfg[g].thresh_verified = 1
        /\ cfg[g].thresh_trusted = 2

\* C32: a ticket whose status is completed has opener_confirmed = 1 and
\* partner_confirmed = 1, and each of the two flags is set in no other
\* step than the press of that side's confirm button by that participant.
C32_CompletedHasBothFlags ==
    [][\A t \in DOMAIN trades' :
          /\ trades'[t].status = "completed" =>
                /\ trades'[t].opener_confirmed = 1
                /\ trades'[t].partner_confirmed = 1
          /\ (t \in DOMAIN trades /\ trades[t].opener_confirmed = 0
                 /\ trades'[t].opener_confirmed = 1) =>
                \E ok \in BOOLEAN : ConfirmOpener(t, trades[t].opener_id, ok)
          /\ (t \in DOMAIN trades /\ trades[t].partner_confirmed = 0
                 /\ trades'[t].partner_confirmed = 1) =>
                \E ok \in BOOLEAN : ConfirmPartner(t, trades[t].partner_id, ok)]_vars

\* one ticket completed while another is active with the opener's
\* confirmation alone
C32_Witness ==
    \E t1 \in DOMAIN trades, t2 \in DOMAIN trades :
        /\ trades[t1].status = "completed"
        /\ trades[t2].status = "active"
        /\ trades[t2].opener_confirmed = 1
        /\ trades[t2].partner_confirmed = 0

\* C33: a ticket whose status is completed, declined, expired or
\* cancelled is pending or active after no step.
C33_TerminalNeverReopens ==
    [][\A t \in DOMAIN trades :
          trades[t].status \in Terminal =>
             trades'[t].status \notin {"pending", "active"}]_vars

\* tickets in a terminal status whose buttons are still shown, so that
\* they can be pressed: a declined one with the pending buttons and a
\* cancelled or expired one with the active buttons
C33_Witness ==
    \E t1 \in DOMAIN trades, t2 \in DOMAIN trades :
        /\ trades[t1].status = "declined"
        /\ view[t1] = "pending"
        /\ trades[t2].status \in {"cancelled", "expired"}
        /\ view[t2] = "active"

\* C34: with passes of the expiry loop taken whenever they stay possible,
\* a ticket that is pending or active, has channel_id and message_id, and
\* is at least TRADE_EXPIRE_SECONDS old gets a terminal status in the end.
C34_DueTicketEnds ==
    \A t \in TradeIds :
        (/\ t \in DOMAIN trades
         /\ trades[t].status \in {"pending", "active"}
         /\ trades[t].channel_id # NULL
         /\ trades[t].message_id # NULL
         /\ now - trades[t].created_at >= TRADE_EXPIRE_SECONDS)
        ~> (t \in DOMAIN trades /\ trades[t].status \in Terminal)

\* a run of the loop has expired one due ticket and has a second one,
\* still open and due, to visit
C34_Witness ==
    \E t \in sweepRows : \E t2 \in DOMAIN trades :
        /\ trades[t].status \in {"pending", "active"}
        /\ now - trades[t].created_at >= TRADE_EXPIRE_SECONDS
        /\ trades[t2].status = "expired"
        /\ view[t2] = "none"

\* C35: a ticket whose channel_id or message_id is NULL is selected by
\* the query of the expiry loop at no time, is a row of no running loop,
\* and is left as it is, status included, by every pass of the loop.
C35_SweepSkipsUnposted ==
    [][\A t \in DOMAIN trades :
          (trades[t].channel_id = NULL \/ trades[t].message_id = NULL) =>
             /\ \A ts \in 0..MaxTime : t \notin find_expirable_trades(trades, ts)
             /\ t \notin sweepRows
             /\ t \notin sweepRows'
             /\ \A ok \in BOOLEAN : ~SweepStart(t, ok) /\ ~SweepStep(t, ok)
             /\ Sweep => trades'[t] = trades[t]
             /\ trades'[t].status = trades[t].status]_vars

\* the send of a ticket's message failed: the ticket is pending without a
\* message and as old as the expiry time, no trade command is waiting, and
\* the loop has expired the other ticket
C35_Witness ==
    \E t \in DOMAIN trades, t2 \in DOMAIN trades :
        /\ trades[t].message_id = NULL
        /\ t \notin tradeCmd
        /\ trades[t].status = "pending"
        /\ now - trades[t].created_at >= TRADE_EXPIRE_SECONDS
        /\ trades[t2].status = "expired"

\* C36: the vouches rows of a ticket are at most two: every row is
\* authored by one participant about the other, at most one row is the
\* opener's and at most one the partner's; a participant whose row is
\* stored is refused every further vouch on the ticket.
C36_TwoVouchesPerTicket ==
    \A t \in DOMAIN trades :
        LET rows == RowsOf(vouches, t)
            by(u) == [r \in {x \in BagToSet(rows) : x.voucher_id = u} |-> rows[r]]
        IN /\ BagCardinality(rows) <= 2
           /\ \A r \in BagToSet(rows) :
                 {r.voucher_id, r.target_id}
                    = {trades[t].opener_id, trades[t].partner_id}
           /\ BagCardinality(by(trades[t].opener_id)) <= 1
           /\ BagCardinality(by(trades[t].partner_id)) <= 1
           /\ \A g \in Guilds, u \in Members, p \in Members, s \in Stars :
                 BagCardinality(by(u)) > 0 =>
                    vouch_result(trades, vouches, g, u, p, t, s, TRUE) # "ok"

\* a ticket with the opener's row and the partner's row, where another
\* rating by the opener is answered as already given
C36_Witness ==
    \E t \in DOMAIN trades :
        /\ \E r \in BagToSet(vouches) :
              r.trade_id = t /\ r.voucher_id = trades[t].opener_id /\ r.stars = 1
        /\ \E r \in BagToSet(vouches) :
              r.trade_id = t /\ r.voucher_id = trades[t].partner_id
        /\ vouch_result(trades, vouches, trades[t].guild_id, trades[t].opener_id,
                        trades[t].partner_id, t, 5, TRUE) = "AlreadyVouched"

\* C37: a stored ticket keeps its id, guild_id, opener_id, partner_id and
\* created_at in every step; the buttons and the expiry loop leave every
\* channel_id and message_id as they are, and the posting of a ticket
\* message leaves every status, accepted and confirmation flag as it is.
C37_IdentityColumnsFixed ==
    [][/\ \A t \in DOMAIN trades :
             /\ t \in DOMAIN trades'
             /\ trades'[t].guild_id = trades[t].guild_id
             /\ trades'[t].opener_id = trades[t].opener_id
             /\ trades'[t].partner_id = trades[t].partner_id
             /\ trades'[t].created_at = trades[t].created_at
       /\ (\E t \in TradeIds, u \in Members, ok \in BOOLEAN :
              \/ Accept(t, u, ok) \/ Decline(t, u, ok)
              \/ ConfirmOpener(t, u, ok) \/ ConfirmPartner(t, u, ok)
              \/ ForceClose(t, u, ok)
              \/ SweepStart(t, ok) \/ SweepStep(t, ok)) =>
             \A t \in DOMAIN trades :
                /\ trades'[t].channel_id = trades[t].channel_id
                /\ trades'[t].message_id = trades[t].message_id
       /\ (\E t \in TradeIds, ok \in BOOLEAN : TradePost(t, ok)) =>
             \A t \in DOMAIN trades :
                /\ trades'[t].status = trades[t].status
                /\ trades'[t].accepted = trades[t].accepted
                /\ trades'[t].opener_confirmed = trades[t].opener_confirmed
                /\ trades'[t].partner_confirmed = trades[t].partner_confirmed]_vars

\* tickets created after the clock's start that have been posted,
\* accepted and confirmed, one of them force-closed or expired
C37_Witness ==
    \E t1 \in DOMAIN trades, t2 \in DOMAIN trades :
        /\ trades[t1].created_at > 0
        /\ trades[t1].status = "completed"
        /\ trades[t1].message_id # NULL
        /\ trades[t2].created_at > 0
        /\ trades[t2].status \in {"cancelled", "expired"}

\* C38: when make_trade_id draws the id of a stored ticket, the insert
\* raises on the primary key: the trade command answers with that error,
\* no step creates a ticket under a stored id, the stored row stays as it
\* is in that command, and no message is posted for it.
C38_CollisionKeepsRow ==
    [][\A t \in DOMAIN trades :
          /\ create_trade_raises(trades, t)
          /\ \A g \in TradeGuilds, o \in Openers, p \in TradePartners :
                /\ (p \notin Bots /\ p # o) =>
                      trade_result(trades, o, p, t, TRUE) = "IntegrityError"
                /\ \A ok \in BOOLEAN : ~Trade(g, o, p, t, ok)
          /\ (\E g \in TradeGuilds, o \in Openers, p \in TradePartners,
                 t2 \in TradeIds, ok \in BOOLEAN : Trade(g, o, p, t2, ok)) =>
                /\ trades'[t] = trades[t]
                /\ (t \in tradeCmd') = (t \in tradeCmd)]_vars

\* a ticket that has been accepted and confirmed by its opener, whose id
\* is drawn again while the other id is free
C38_Witness ==
    \E t \in DOMAIN trades : \E t2 \in TradeIds \ DOMAIN trades :
        /\ trades[t].status = "active"
        /\ trades[t].opener_confirmed = 1
        /\ trade_result(trades, trades[t].opener_id, trades[t].partner_id, t,
                        TRUE) = "IntegrityError"
        /\ trade_result(trades, trades[t].opener_id, trades[t].partner_id, t2,
                        TRUE) = "ok"

\* C40: classification compares the count with the effective thresholds:
\* the stored one, or the tier's default (1 for new, 5 for verified, 15
\* for trusted) where 0 is stored; every effective threshold is at least
\* 1, whatever triple /set_thresholds has stored.
C40_ZeroThresholdIsDefault ==
    [][\A g \in TradeGuilds, n \in 0..MaxCount :
          Classify(g, n) =>
             LET c == cfg[g]
                 new == IF c.thresh_new = 0 THEN 1 ELSE c.thresh_new
                 ver == IF c.thresh_verified = 0 THEN 5 ELSE c.thresh_verified
                 tru == IF c.thresh_trusted = 0 THEN 15 ELSE c.thresh_trusted
                 tier == IF n >= tru THEN "Trusted Trader"
                         ELSE IF n >= ver THEN "Verified Trader"
                         ELSE IF n >= new THEN "New Trader"
                         ELSE "Unranked"
                 tiers == get_tiers(c)
             IN /\ new >= 1 /\ ver >= 1 /\ tru >= 1
                /\ tiers[1].threshold = tru
                /\ tiers[2].threshold = ver
                /\ tiers[3].threshold = new
                /\ answer'.label = tier
                /\ c.role_new_id # NULL =>
                      answer'.chosen = (IF tier = "Unranked" THEN "None"
                                        ELSE tier)]_vars

\* the stored thresholds (0, 0, 1) are read as (1, 5, 1), which differ
\* from them and are not in ascending order: the count 1 is classified
\* trusted
C40_Witness ==
    \E g \in TradeGuilds :
        /\ cfg[g].thresh_new = 0
        /\ cfg[g].thresh_verified = 0
        /\ cfg[g].thresh_trusted = 1
        /\ get_tiers(cfg[g])[2].threshold > get_tiers(cfg[g])[1].threshold
        /\ answer.kind = "tier"
        /\ answer.guild_id = g
        /\ answer.total = 1
        /\ answer.label = "Trusted Trader"

\* C39: apply_roles chooses the first tier, from trusted over verified to
\* new, whose threshold (as get_tiers reads it) is at most the count and
\* whose role id is configured, and none when there is no such tier: a
\* tier without a role is passed over though its threshold is reached.
\* Stated for the stored row and for that row with every choice of which
\* of the three role ids are set.
C39_ChosenNeedsRole ==
    [][\A g \in TradeGuilds, n \in 0..MaxCount :
          Classify(g, n) =>
             /\ \A rn \in {NULL, RoleNew}, rv \in {NULL, RoleVerified},
                   rt \in {NULL, RoleTrusted} :
                   LET c == [cfg[g] EXCEPT !.role_new_id = rn,
                                           !.role_verified_id = rv,
                                           !.role_trusted_id = rt]
                       tiers == get_tiers(c)
                       chosen == chosen_tier(tiers, n)
                   IN IF n >= tiers[1].threshold /\ rt # NULL
                      THEN chosen.name = "Trusted Trader" /\ chosen.role_id = rt
                      ELSE IF n >= tiers[2].threshold /\ rv # NULL
                      THEN chosen.name = "Verified Trader" /\ chosen.role_id = rv
                      ELSE IF n >= tiers[3].threshold /\ rn # NULL
                      THEN chosen.name = "New Trader" /\ chosen.role_id = rn
                      ELSE chosen = NoTier
             /\ answer'.chosen = chosen_tier(get_tiers(cfg[g]), n).name
             /\ cfg[g].role_new_id = NULL => answer'.chosen = "None"]_vars

\* no role is configured and the count 5 reaches the verified threshold
\* of (1, 5, 15): the label is Verified Trader and no tier is chosen
C39_Witness ==
    \E g \in TradeGuilds :
        /\ cfg[g].role_new_id = NULL
        /\ cfg[g].role_verified_id = NULL
        /\ cfg[g].role_trusted_id = NULL
        /\ cfg[g].thresh_verified = 5
        /\ answer.kind = "tier"
        /\ answer.guild_id = g
        /\ answer.total = 5
        /\ answer.label = "Verified Trader"
        /\ answer.chosen = "None"

====
